---- MODULE Spec2Model ----
(***************************************************************************)
(* A model of the SIP request data model of gosip (package sip,            *)
(* request.go): NewRequest, Clone, WithFields, CopyRequest, NewAckRequest, *)
(* NewCancelRequest, Source and Destination.                               *)
(*                                                                         *)
(* Go values that are pointers (URIs, headers) live in two heaps, uris and *)
(* hdrs, and are referred to by their index, so that two requests holding  *)
(* the same object is a state the model can be in.  Go strings that the    *)
(* code parses or prints (Via parameter values) are sequences of           *)
(* one-character strings.                                                  *)
(***************************************************************************)
EXTENDS Integers, Sequences, FiniteSets, TLC

\* Bounds of the model.
MaxReqs == 2          \* requests alive at once
MaxMut == 1           \* caller mutations of an object in one behaviour
MaxRR == 2            \* Record-Route addresses carried by the response
MaxGen == 2           \* tokens drawn from each generator

VARIABLES
    uris,        \* heap of URI objects
    hdrs,        \* heap of header objects
    reqs,        \* the requests constructed so far
    origin,      \* for each request, the call that returned it and its source
    resp,        \* the INVITE response handed to NewAckRequest
    nextID,      \* state of the message-id generator
    nextBranch,  \* state of the branch generator
    last,        \* the last call: its inputs, its outcome, the values before it
    nmut         \* mutations done so far

vars == <<uris, hdrs, reqs, origin, resp, nextID, nextBranch, last, nmut>>

----------------------------------------------------------------------------
\* Strings

RECURSIVE Join(_)
\* The Go string made of the characters cs.
Join(cs) == IF cs = <<>> THEN "" ELSE Head(cs) \o Join(Tail(cs))

\* MaybeString: nil, or String{Str}.
NilString == [isNil |-> TRUE, Str |-> <<>>]
String(cs) == [isNil |-> FALSE, Str |-> cs]

\* A *Port that is nil.
NilPort == -1

----------------------------------------------------------------------------
\* Metadata mapping (log.Fields)

NoFields == [k \in {} |-> ""]

\* fields.WithFields(newFields): a new mapping, newFields' keys override.
WithFields(fields, newFields) ==
    [k \in (DOMAIN fields) \cup (DOMAIN newFields) |->
        IF k \in DOMAIN newFields THEN newFields[k] ELSE fields[k]]

----------------------------------------------------------------------------
\* Header parameters, URIs, headers

NoParams == [k \in {} |-> NilString]

\* params.Add(key, val): sets the value of key, adding the key when new.
ParamsAdd(params, key, val) ==
    [k \in (DOMAIN params) \cup {key} |-> IF k = key THEN val ELSE params[k]]

\* params.Get(key)
ParamsGet(params, key) ==
    [ok |-> key \in DOMAIN params,
     val |-> IF key \in DOMAIN params THEN params[key] ELSE NilString]

\* A URI object: a *SipUri (kind "sip") or another implementation of Uri.
SipUri(host, port) == [kind |-> "sip", FHost |-> host, FPort |-> port]
OtherUri(host) == [kind |-> "other", FHost |-> host, FPort |-> NilPort]

\* A Via hop.
ViaHop(host, port, transport, params) ==
    [Host |-> host, Port |-> port, Transport |-> transport, Params |-> params]

\* What ViaHeader{nil} holds: the clone of a nil *ViaHop.
NilHop == ViaHop("<nil>", NilPort, "", NoParams)

\* Header objects, one record shape for every variant.
Hdr(name) ==
    [name |-> name, hops |-> <<>>, Addresses |-> <<>>,
     SeqNo |-> 0, MethodName |-> "", val |-> ""]
ViaHeader(hops) == [Hdr("Via") EXCEPT !.hops = hops]
RouteHeader(addrs) == [Hdr("Route") EXCEPT !.Addresses = addrs]
RecordRouteHeader(addrs) == [Hdr("Record-Route") EXCEPT !.Addresses = addrs]
ContactHeader(addr) == [Hdr("Contact") EXCEPT !.Addresses = <<addr>>]
CSeqHeader(n, m) == [Hdr("CSeq") EXCEPT !.SeqNo = n, !.MethodName = m]
GenericHeader(name, v) == [Hdr(name) EXCEPT !.val = v]

----------------------------------------------------------------------------
\* The heap: a frame f holds the heaps, the requests and the generators; an
\* operation maps a frame to a frame.  f.panic is set when the call aborted.

Frame ==
    [uris |-> uris, hdrs |-> hdrs, reqs |-> reqs,
     nextID |-> nextID, nextBranch |-> nextBranch, panic |-> FALSE]

\* uri.Clone(): a new URI object equal to uris[u]; its index is Len(f.uris)+1.
CloneUri(f, u) == [f EXCEPT !.uris = Append(@, f.uris[u])]

\* header.Clone(): a new header object, its addresses cloned too; its index
\* is Len(f.hdrs)+1.
CloneHeader(f, h) ==
    LET hd == f.hdrs[h]
        n == Len(hd.Addresses)
        base == Len(f.uris)
    IN [f EXCEPT !.uris = @ \o [k \in 1..n |-> f.uris[hd.Addresses[k]]],
                 !.hdrs = Append(@, [hd EXCEPT !.Addresses =
                                        [k \in 1..n |-> base + k]])]

RECURSIVE CloneAll(_, _)
\* Every header of hs cloned in order; the clones are the last Len(hs)
\* objects of the header heap.
CloneAll(f, hs) ==
    IF hs = <<>> THEN f ELSE CloneAll(CloneHeader(f, Head(hs)), Tail(hs))

\* The indices of the n newest header objects.
Newest(f, n) == [k \in 1..n |-> Len(f.hdrs) - n + k]

\* msg.GetHeaders(name): the headers of that name, in insertion order.
GetHeaders(f, msg, name) ==
    SelectSeq(msg.headers, LAMBDA h : f.hdrs[h].name = name)

\* req.AppendHeader(h) on request i.
AppendHeader(f, i, h) == [f EXCEPT !.reqs[i].headers = Append(@, h)]

\* msg.ViaHop(): the first hop of the first Via header; 0 when there is none.
TopVia(f, msg) ==
    LET vs == GetHeaders(f, msg, "Via")
    IN IF vs = <<>> \/ f.hdrs[vs[1]].hops = <<>> THEN 0 ELSE vs[1]

\* msg.CSeq(): the first CSeq header; 0 (nil) when there is none.
CSeq(f, msg) ==
    LET cs == GetHeaders(f, msg, "CSeq") IN IF cs = <<>> THEN 0 ELSE cs[1]

\* msg.Contact(): the first Contact header; 0 when there is none.
Contact(f, msg) ==
    LET cs == GetHeaders(f, msg, "Contact") IN IF cs = <<>> THEN 0 ELSE cs[1]

\* CopyHeaders(name, from, to): appends a clone of each header of that name.
CopyHeaders(f, name, from, to) ==
    LET hs == GetHeaders(f, from, name)
        g == CloneAll(f, hs)
    IN [g EXCEPT !.reqs[to].headers = @ \o Newest(g, Len(hs))]

----------------------------------------------------------------------------
\* Generators

\* NextMessageID(): an identifier no message holds yet.
NextMessageID(f) == "id" \o ToString(f.nextID)

\* GenerateBranch(): a branch token no Via hop holds yet.
GenerateBranch(f) == <<"z9hG4bK.", ToString(f.nextBranch)>>

----------------------------------------------------------------------------
\* NewRequest

\* The fields of a new request: the caller's, then request_id.
RequestFieldsKeepCaller(fields, messID) ==
    WithFields([request_id |-> messID], fields)

RequestFields(fields, messID) ==
    WithFields(fields, [request_id |-> messID])

\* strings.TrimSpace(body) != ""
NonBlank(body) == body \notin {"", " ", "\r\n"}

\* NewRequest(...): the new request is the last of the frame's reqs.
NewRequest(f, messID, method, recipient, sipVersion, hs, body, fields) ==
    LET id == IF messID = "" THEN NextMessageID(f) ELSE messID
        req == [messID |-> id,
                sipVersion |-> sipVersion,
                headers |-> hs,
                method |-> method,
                recipient |-> recipient,
                fields |-> RequestFields(fields, id),
                body |-> IF NonBlank(body) THEN body ELSE "",
                src |-> "", dest |-> ""]
    IN [f EXCEPT !.reqs = Append(@, req),
                 !.nextID = IF messID = "" THEN @ + 1 ELSE @]

\* req.Clone() of request i.
CloneSameID(f, i) ==
    LET r == f.reqs[i]
        g == CloneAll(CloneUri(f, r.recipient), r.headers)
    IN NewRequest(g, r.messID, r.method, Len(f.uris) + 1, r.sipVersion,
                  Newest(g, Len(r.headers)), r.body, r.fields)

Clone(f, i) ==
    LET r == f.reqs[i]
        g == CloneAll(CloneUri(f, r.recipient), r.headers)
    IN NewRequest(g, "", r.method, Len(f.uris) + 1, r.sipVersion,
                  Newest(g, Len(r.headers)), r.body, r.fields)

\* req.WithFields(fields) of request i.
ReqWithFields(f, i, fields) ==
    LET r == f.reqs[i]
        g == CloneAll(CloneUri(f, r.recipient), r.headers)
    IN NewRequest(g, r.messID, r.method, Len(f.uris) + 1, r.sipVersion,
                  Newest(g, Len(r.headers)), r.body,
                  WithFields(r.fields, fields))

\* CopyRequest(req) of request i: the headers are cloned first.
CopyRequest(f, i) ==
    LET r == f.reqs[i]
        g == CloneAll(f, r.headers)
        g2 == CloneUri(g, r.recipient)
    IN NewRequest(g2, r.messID, r.method, Len(g.uris) + 1, r.sipVersion,
                  Newest(g, Len(r.headers)), r.body, r.fields)

----------------------------------------------------------------------------
\* NewAckRequest, statement by statement.  i is the INVITE's index, a the
\* ACK's, rsp the response.

\* The ACK's recipient: the response's Contact address, else the INVITE's
\* recipient; the URI object itself, not a clone.
AckRecipient(f, i, rsp) ==
    LET c == Contact(f, rsp)
    IN IF c # 0 THEN f.hdrs[c].Addresses[1] ELSE f.reqs[i].recipient

AckBase(f, ackID, i, rsp, fields) ==
    NewRequest(f, ackID, "ACK", AckRecipient(f, i, rsp), rsp.sipVersion,
               <<>>, "",
               WithFields(WithFields(f.reqs[i].fields, fields),
                          [invite_request_id |-> f.reqs[i].messID,
                           invite_response_id |-> rsp.messID]))

\* Whether msg.ViaHop() returns a nil hop.
NoViaHop(f, msg) ==
    \/ TopVia(f, msg) = 0
    \/ f.hdrs[TopVia(f, msg)].hops[1] = NilHop

AckKeepBranch(f, a) ==
    IF NoViaHop(f, f.reqs[a]) THEN [f EXCEPT !.panic = TRUE] ELSE f

\* viaHop, _ := ackRequest.ViaHop(); viaHop.Params.Add("branch", ...):
\* a nil viaHop is dereferenced.
AckBranch(f, a) ==
    IF NoViaHop(f, f.reqs[a])
    THEN [f EXCEPT !.panic = TRUE]
    ELSE [f EXCEPT !.hdrs[TopVia(f, f.reqs[a])].hops[1].Params =
                       ParamsAdd(@, "branch", String(GenerateBranch(f))),
                   !.nextBranch = @ + 1]

\* One Record-Route header h of the response: a Route header of clones of
\* its addresses, last address first, appended to the ACK.
ReversedRoute(f, a, h) ==
    LET hd == f.hdrs[h]
        n == Len(hd.Addresses)
        base == Len(f.uris)
        g == [f EXCEPT
                !.uris = @ \o [k \in 1..n |-> f.uris[hd.Addresses[n + 1 - k]]],
                !.hdrs = Append(@, RouteHeader([k \in 1..n |-> base + k]))]
    IN AppendHeader(g, a, Len(g.hdrs))

RECURSIVE AckRouteSet(_, _, _)
\* for _, h := range inviteResponse.GetHeaders("Record-Route")
AckRouteSet(f, a, hs) ==
    IF hs = <<>> THEN f
    ELSE AckRouteSet(ReversedRoute(f, a, Head(hs)), a, Tail(hs))

AckRoute(f, i, a, rsp) ==
    IF Len(GetHeaders(f, f.reqs[i], "Route")) > 0
    THEN CopyHeaders(f, "Route", f.reqs[i], a)
    ELSE AckRouteSet(f, a, GetHeaders(f, rsp, "Record-Route"))

AckDialog(f, i, a, rsp) ==
    LET f1 == CopyHeaders(f, "From", f.reqs[i], a)
        f2 == CopyHeaders(f1, "To", rsp, a)
        f3 == CopyHeaders(f2, "Call-ID", f2.reqs[i], a)
    IN CopyHeaders(f3, "CSeq", f3.reqs[i], a)

AckCSeqKeep(f, a) ==
    IF CSeq(f, f.reqs[a]) = 0 THEN [f EXCEPT !.panic = TRUE] ELSE f

\* cseq, _ := ackRequest.CSeq(); cseq.MethodName = ACK: a nil cseq is
\* dereferenced.
AckCSeq(f, a) ==
    IF CSeq(f, f.reqs[a]) = 0
    THEN [f EXCEPT !.panic = TRUE]
    ELSE [f EXCEPT !.hdrs[CSeq(f, f.reqs[a])].MethodName = "ACK"]

NewAckRequest(f, ackID, i, rsp, fields) ==
    LET a == Len(f.reqs) + 1
        f1 == AckBase(f, ackID, i, rsp, fields)
        f2 == AckBranch(CopyHeaders(f1, "Via", f1.reqs[i], a), a)
        f3 == AckDialog(AckRoute(f2, i, a, rsp), i, a, rsp)
    IN IF f2.panic THEN f2 ELSE AckCSeq(f3, a)

----------------------------------------------------------------------------
\* NewCancelRequest.  i is the index of the request to cancel, c the
\* CANCEL's.  nilClone is what viaHop.Clone() does on a nil hop: "panic", or
\* "nil" (it returns nil).

CancelBase(f, cancelID, i, fields) ==
    NewRequest(f, cancelID, "CANCEL", f.reqs[i].recipient,
               f.reqs[i].sipVersion, <<>>, "",
               WithFields(WithFields(f.reqs[i].fields, fields),
                          [cancelling_request_id |-> f.reqs[i].messID]))

CancelViaNewBranch(f, i, c, nilClone) ==
    IF NoViaHop(f, f.reqs[i])
    THEN IF nilClone = "panic"
         THEN [f EXCEPT !.panic = TRUE]
         ELSE AppendHeader([f EXCEPT !.hdrs = Append(@, ViaHeader(<<NilHop>>))],
                           c, Len(f.hdrs) + 1)
    ELSE LET hop == f.hdrs[TopVia(f, f.reqs[i])].hops[1]
             new == [hop EXCEPT !.Params =
                        ParamsAdd(@, "branch", String(GenerateBranch(f)))]
         IN AppendHeader([f EXCEPT !.hdrs = Append(@, ViaHeader(<<new>>)),
                                   !.nextBranch = @ + 1],
                         c, Len(f.hdrs) + 1)

\* viaHop, _ := requestForCancel.ViaHop()
\* cancelReq.AppendHeader(ViaHeader{viaHop.Clone()})
CancelVia(f, i, c, nilClone) ==
    IF NoViaHop(f, f.reqs[i])
    THEN IF nilClone = "panic"
         THEN [f EXCEPT !.panic = TRUE]
         ELSE AppendHeader([f EXCEPT !.hdrs = Append(@, ViaHeader(<<NilHop>>))],
                           c, Len(f.hdrs) + 1)
    ELSE LET hop == f.hdrs[TopVia(f, f.reqs[i])].hops[1]
         IN AppendHeader([f EXCEPT !.hdrs = Append(@, ViaHeader(<<hop>>))],
                         c, Len(f.hdrs) + 1)

CancelDialog(f, i, c) ==
    LET f1 == CopyHeaders(f, "Route", f.reqs[i], c)
        f2 == CopyHeaders(f1, "From", f1.reqs[i], c)
        f3 == CopyHeaders(f2, "To", f2.reqs[i], c)
        f4 == CopyHeaders(f3, "Call-ID", f3.reqs[i], c)
    IN CopyHeaders(f4, "CSeq", f4.reqs[i], c)

\* cseq, _ := cancelReq.CSeq(); cseq.MethodName = CANCEL
CancelCSeq(f, c) ==
    IF CSeq(f, f.reqs[c]) = 0
    THEN [f EXCEPT !.panic = TRUE]
    ELSE [f EXCEPT !.hdrs[CSeq(f, f.reqs[c])].MethodName = "CANCEL"]

NewCancelRequest(f, cancelID, i, fields, nilClone) ==
    LET c == Len(f.reqs) + 1
        f1 == CancelVia(CancelBase(f, cancelID, i, fields), i, c, nilClone)
    IN IF f1.panic THEN f1 ELSE CancelCSeq(CancelDialog(f1, i, c), c)

----------------------------------------------------------------------------
\* Source and Destination

DigitChars == <<"0", "1", "2", "3", "4", "5", "6", "7", "8", "9">>
IsDigit(c) == \E d \in 1..10 : DigitChars[d] = c
DigitVal(c) == (CHOOSE d \in 1..10 : DigitChars[d] = c) - 1
AllDigits(cs) == \A k \in 1..Len(cs) : IsDigit(cs[k])

RECURSIVE Low16(_, _)
\* The low 16 bits of the decimal number cs, acc being those of the digits
\* read so far.
Low16(cs, acc) ==
    IF cs = <<>> THEN acc
    ELSE Low16(Tail(cs), (acc * 10 + DigitVal(Head(cs))) % 65536)

RECURSIVE StripZeros(_)
StripZeros(cs) ==
    IF cs # <<>> /\ Head(cs) = "0" THEN StripZeros(Tail(cs)) ELSE cs

RECURSIVE DigitsGreater(_, _)
\* a > b, for digit strings of one length.
DigitsGreater(a, b) ==
    /\ a # <<>>
    /\ \/ DigitVal(Head(a)) > DigitVal(Head(b))
       \/ Head(a) = Head(b) /\ DigitsGreater(Tail(a), Tail(b))

\* Whether the decimal number cs is greater than the decimal number limit.
Exceeds(cs, limit) ==
    \/ Len(StripZeros(cs)) > Len(limit)
    \/ Len(StripZeros(cs)) = Len(limit) /\ DigitsGreater(StripZeros(cs), limit)

\* 2^63 - 1 and 2^63, the largest magnitudes of a positive and of a
\* negative int.
MaxIntDigits ==
    <<"9", "2", "2", "3", "3", "7", "2", "0", "3", "6",
      "8", "5", "4", "7", "7", "5", "8", "0", "7">>
MinIntDigits ==
    <<"9", "2", "2", "3", "3", "7", "2", "0", "3", "6",
      "8", "5", "4", "7", "7", "5", "8", "0", "8">>

\* p, _ := strconv.Atoi(s); uint16(p), for a 64-bit int.  Atoi gives 0 on a
\* syntax error and the nearest int on a range error; the conversion keeps
\* the low 16 bits.
AtoiUint16(cs) ==
    LET signed == cs # <<>> /\ Head(cs) \in {"-", "+"}
        ds == IF signed THEN Tail(cs) ELSE cs
    IN IF ds = <<>> \/ ~AllDigits(ds) THEN 0
       ELSE IF Head(cs) = "-"
            THEN IF Exceeds(ds, MinIntDigits) THEN 0
                 ELSE (65536 - Low16(ds, 0)) % 65536
            ELSE IF Exceeds(ds, MaxIntDigits) THEN 65535
                 ELSE Low16(ds, 0)

\* req.Transport(): the transport of the top Via hop, UDP without one.
Transport(f, req) ==
    IF NoViaHop(f, req) THEN "UDP"
    ELSE f.hdrs[TopVia(f, req)].hops[1].Transport

\* DefaultPort(transport)
DefaultPort(transport) == IF transport = "TLS" THEN 5061 ELSE 5060

\* fmt.Sprintf("%v:%v", host, port)
HostPort(host, port) == host \o ":" \o ToString(port)

Returns(out) == [ok |-> TRUE, out |-> out]
Panics == [ok |-> FALSE, out |-> ""]

\* req.Source()
Source(f, req) ==
    IF req.src # "" THEN Returns(req.src)
    ELSE IF TopVia(f, req) = 0 THEN Returns("")
    ELSE IF NoViaHop(f, req) THEN Panics
    ELSE
      LET viaHop == f.hdrs[TopVia(f, req)].hops[1]
          received == ParamsGet(viaHop.Params, "received")
          rport == ParamsGet(viaHop.Params, "rport")
          host == IF received.ok /\ received.val.Str # <<>>
                  THEN Join(received.val.Str) ELSE viaHop.Host
          port == IF rport.ok /\ ~rport.val.isNil /\ rport.val.Str # <<>>
                  THEN AtoiUint16(rport.val.Str)
                  ELSE IF viaHop.Port # NilPort THEN viaHop.Port
                  ELSE DefaultPort(Transport(f, req))
      IN IF received.ok /\ received.val.isNil THEN Panics
         ELSE Returns(HostPort(host, port))

\* The URI that governs the destination: the first address of the first
\* Route header, else the recipient; 0 for nil.
RouteUri(f, req) ==
    LET rs == GetHeaders(f, req, "Route")
    IN IF Len(rs) > 0 /\ Len(f.hdrs[rs[1]].Addresses) > 0
       THEN f.hdrs[rs[1]].Addresses[1] ELSE 0

\* req.Destination()
Destination(f, req) ==
    IF req.dest # "" THEN Returns(req.dest)
    ELSE IF RouteUri(f, req) # 0 /\ f.uris[RouteUri(f, req)].kind # "sip"
    THEN Panics
    ELSE IF RouteUri(f, req) = 0 /\ f.uris[req.recipient].kind # "sip"
    THEN Returns("")
    ELSE
      LET uri == f.uris[IF RouteUri(f, req) # 0 THEN RouteUri(f, req)
                        ELSE req.recipient]
          port == IF uri.FPort = NilPort THEN DefaultPort(Transport(f, req))
                  ELSE uri.FPort
      IN Returns(HostPort(uri.FHost, port))

----------------------------------------------------------------------------
\* What a caller can observe of a message: its fields with every reference
\* followed.

HeaderView(f, h) ==
    [f.hdrs[h] EXCEPT !.Addresses =
        [k \in 1..Len(f.hdrs[h].Addresses) |-> f.uris[f.hdrs[h].Addresses[k]]]]

HeadersView(f, msg) ==
    [k \in 1..Len(msg.headers) |-> HeaderView(f, msg.headers[k])]

ReqView(f, i) ==
    [f.reqs[i] EXCEPT !.recipient = f.uris[f.reqs[i].recipient],
                      !.headers = HeadersView(f, f.reqs[i])]

RespView(f, rsp) == [rsp EXCEPT !.headers = HeadersView(f, rsp)]

\* The values every message has before a call.
Pre == [reqs |-> [i \in 1..Len(reqs) |-> ReqView(Frame, i)],
        resp |-> RespView(Frame, resp)]

Call(op, ok, src, dst, out) ==
    [op |-> op, ok |-> ok, src |-> src, dst |-> dst, out |-> out, pre |-> Pre]

----------------------------------------------------------------------------
\* The inputs callers supply

CallerFields == {NoFields, [request_id |-> "zz", tag |-> "t"]}
\* A message id with the fields passed along with it.
CallerMeta == {<<"", NoFields>>, <<"m1", [request_id |-> "zz", tag |-> "t"]>>}
ViaHopCounts == {0, 2}
\* Whether a caller's request has a Route header, and a CSeq header.
CallerShapes == {<<FALSE, TRUE>>, <<TRUE, TRUE>>, <<FALSE, FALSE>>}
CallerBranch == <<"z9hG4bK-", "1">>
CallerCSeq(method) == CSeqHeader(42, method)

\* The Via hops of a caller's request: n hops in one Via header.
CallerHops(n) ==
    [k \in 1..n |->
        ViaHop("via" \o ToString(k), NilPort, "UDP",
               [branch |-> String(Append(CallerBranch, ToString(k))),
                rport |-> NilString])]

\* The objects a caller makes for one request: the recipient URI, then the
\* headers Via (when n > 0), Route (when hasRoute, one address), From, To,
\* Call-ID and CSeq (when hasCSeq).  The header indices follow Len(f.hdrs).
CallerObjects(f, n, hasRoute, hasCSeq, method) ==
    LET u == Len(f.uris)
        hs == (IF n > 0 THEN <<ViaHeader(CallerHops(n))>> ELSE <<>>)
              \o (IF hasRoute THEN <<RouteHeader(<<u + 2>>)>> ELSE <<>>)
              \o <<GenericHeader("From", "alice"), GenericHeader("To", "bob"),
                   GenericHeader("Call-ID", "call1")>>
              \o (IF hasCSeq THEN <<CallerCSeq(method)>> ELSE <<>>)
    IN [f EXCEPT
          !.uris = @ \o <<SipUri("bob.example", NilPort)>>
                     \o (IF hasRoute THEN <<SipUri("proxy.example", 5080)>>
                         ELSE <<>>),
          !.hdrs = @ \o hs]

\* The ways to write n Record-Route addresses on header lines: cuts is the
\* set of positions after which a new line starts.
RRLine(cuts, k) == 1 + Cardinality({c \in cuts : c < k})
RRLines(n, cuts) ==
    [j \in 1..(IF n = 0 THEN 0 ELSE Cardinality(cuts) + 1) |->
        SelectSeq([k \in 1..n |-> k], LAMBDA k : RRLine(cuts, k) = j)]

----------------------------------------------------------------------------
\* Init: no request yet, and a response with n Record-Route addresses
\* R1..Rn (URI objects 1..n) on any header lines, a To header and, when
\* hasContact, a Contact header.

InitResp(n, cuts, hasContact) ==
    /\ uris = [k \in 1..n |-> SipUri("p" \o ToString(k), NilPort)]
              \o (IF hasContact THEN <<SipUri("contact.example", 5062)>>
                  ELSE <<>>)
    /\ hdrs = [j \in 1..Len(RRLines(n, cuts)) |->
                  RecordRouteHeader(RRLines(n, cuts)[j])]
              \o <<GenericHeader("To", "bob;tag=1")>>
              \o (IF hasContact THEN <<ContactHeader(n + 1)>> ELSE <<>>)
    /\ resp = [messID |-> "resp1", sipVersion |-> "SIP/2.0",
               headers |-> [k \in 1..Len(hdrs) |-> k]]

Init ==
    /\ \E n \in 0..MaxRR : \E cuts \in SUBSET (1..(n - 1)) :
         \E hasContact \in BOOLEAN : InitResp(n, cuts, hasContact)
    /\ reqs = <<>>
    /\ origin = <<>>
    /\ nextID = 1
    /\ nextBranch = 1
    /\ nmut = 0
    /\ last = [op |-> "init", ok |-> TRUE, src |-> 0, dst |-> 0, out |-> "",
               pre |-> [reqs |-> <<>>, resp |-> RespView(Frame, resp)]]

----------------------------------------------------------------------------
\* Actions: one per call.

\* The bounds on a constructor call.
CanCall == Len(reqs) < MaxReqs /\ nextID <= MaxGen /\ nextBranch <= MaxGen

\* The call op on request src ended in frame f: when it did not panic its
\* result, the last request of f, is returned.
Return(f, op, src) ==
    /\ nextID' = f.nextID
    /\ nextBranch' = f.nextBranch
    /\ UNCHANGED <<resp, nmut>>
    /\ IF f.panic
       THEN /\ UNCHANGED <<uris, hdrs, reqs, origin>>
            /\ last' = Call(op, FALSE, src, 0, "")
       ELSE /\ uris' = f.uris
            /\ hdrs' = f.hdrs
            /\ reqs' = f.reqs
            /\ origin' = Append(origin, [op |-> op, from |-> src])
            /\ last' = Call(op, TRUE, src, Len(f.reqs), "")

NewRequestAct ==
    /\ CanCall
    /\ \E meta \in CallerMeta, n \in ViaHopCounts, shape \in CallerShapes :
         LET f == CallerObjects(Frame, n, shape[1], shape[2], "INVITE")
         IN Return(NewRequest(f, meta[1], "INVITE", Len(uris) + 1, "SIP/2.0",
                              [k \in 1..(Len(f.hdrs) - Len(hdrs)) |->
                                  Len(hdrs) + k],
                              "v=0", meta[2]),
                   "new", 0)

CloneAct ==
    /\ CanCall
    /\ \E i \in 1..Len(reqs) : Return(Clone(Frame, i), "clone", i)

WithFieldsAct ==
    /\ CanCall
    /\ \E i \in 1..Len(reqs), fields \in CallerFields :
         Return(ReqWithFields(Frame, i, fields), "withfields", i)

CopyRequestAct ==
    /\ CanCall
    /\ \E i \in 1..Len(reqs) : Return(CopyRequest(Frame, i), "copy", i)

NewAckRequestAct ==
    /\ CanCall
    /\ \E i \in 1..Len(reqs), meta \in CallerMeta :
         Return(NewAckRequest(Frame, meta[1], i, resp, meta[2]), "ack", i)

NewCancelRequestAct ==
    /\ CanCall
    /\ \E i \in 1..Len(reqs), meta \in CallerMeta, nilClone \in {"panic", "nil"} :
         Return(NewCancelRequest(Frame, meta[1], i, meta[2], nilClone),
                "cancel", i)

\* A caller changes the URI object that request i holds as its recipient.
MutateRecipientAct ==
    /\ nmut < MaxMut
    /\ \E i \in 1..Len(reqs) :
         /\ uris' = [uris EXCEPT ![reqs[i].recipient].FHost = "changed"]
         /\ last' = Call("mutate", TRUE, i, 0, "")
    /\ nmut' = nmut + 1
    /\ UNCHANGED <<hdrs, reqs, origin, resp, nextID, nextBranch>>

\* A caller changes a URI object: the first address of header h.
ChangeAddress(h) ==
    /\ hdrs[h].Addresses # <<>>
    /\ uris' = [uris EXCEPT ![hdrs[h].Addresses[1]].FHost = "changed"]
    /\ UNCHANGED hdrs

\* A caller changes header object h itself.
ChangeHeader(h) ==
    /\ hdrs[h].Addresses = <<>>
    /\ hdrs' = [hdrs EXCEPT
                  ![h].val = "changed",
                  ![h].SeqNo = IF hdrs[h].name = "CSeq" THEN @ + 1 ELSE @,
                  ![h].hops = [k \in 1..Len(@) |->
                                 [@[k] EXCEPT !.Host = "changed"]]]
    /\ UNCHANGED uris

\* A caller changes the k-th header of request i.
MutateHeaderAct ==
    /\ nmut < MaxMut
    /\ \E i \in 1..Len(reqs) : \E k \in 1..Len(reqs[i].headers) :
         /\ ChangeAddress(reqs[i].headers[k]) \/ ChangeHeader(reqs[i].headers[k])
         /\ last' = Call("mutate", TRUE, i, 0, "")
    /\ nmut' = nmut + 1
    /\ UNCHANGED <<reqs, origin, resp, nextID, nextBranch>>

\* A caller changes the k-th header of the response.
MutateResponseAct ==
    /\ nmut < MaxMut
    /\ \E k \in 1..Len(resp.headers) :
         ChangeAddress(resp.headers[k]) \/ ChangeHeader(resp.headers[k])
    /\ last' = Call("mutateresp", TRUE, 0, 0, "")
    /\ nmut' = nmut + 1
    /\ UNCHANGED <<reqs, origin, resp, nextID, nextBranch>>

\* The constructors.
Next ==
    \/ NewRequestAct
    \/ CloneAct
    \/ WithFieldsAct
    \/ CopyRequestAct
    \/ NewAckRequestAct
    \/ NewCancelRequestAct

Spec == Init /\ [][Next]_vars

\* The constructors, and callers that change the objects they hold.
NextMut ==
    \/ NewRequestAct
    \/ CloneAct
    \/ WithFieldsAct
    \/ CopyRequestAct
    \/ NewAckRequestAct
    \/ NewCancelRequestAct
    \/ MutateRecipientAct
    \/ MutateHeaderAct
    \/ MutateResponseAct

SpecMut == Init /\ [][NextMut]_vars

----------------------------------------------------------------------------
\* Source and Destination called on one request, whose Via hop, Route
\* header and recipient are drawn from the sets below.

Chars1234 == <<"1", ".", "2", ".", "3", ".", "4">>
Nines20 == [k \in 1..20 |-> "9"]

\* The received parameter: absent (<<>>), or one value.
ReceivedValues == {<<>>, <<String(<<>>)>>, <<String(Chars1234)>>}

\* The rport parameter: absent, without a value (nil), or one value.
RportValues ==
    {<<>>, <<NilString>>, <<String(<<>>)>>,
     <<String(<<"5", "0", "7", "0">>)>>,
     <<String(<<"7", "0", "0", "0", "0">>)>>,
     <<String(<<"a", "b", "c">>)>>,
     <<String(<<"5", "0", "x">>)>>,
     <<String(<<"-", "1">>)>>,
     <<String(Nines20)>>}

HopParams(received, rport) ==
    LET p == IF received = <<>> THEN NoParams
             ELSE ParamsAdd(NoParams, "received", received[1])
    IN IF rport = <<>> THEN p ELSE ParamsAdd(p, "rport", rport[1])

\* The Via headers of the request: none, or one of one hop.
ViaValues ==
    {<<>>} \cup
    {<<ViaHeader(<<ViaHop("via.example", port, transport,
                          HopParams(received, rport))>>)>> :
        <<port, transport, received, rport>> \in
            {NilPort, 5080} \X {"UDP", "TLS"} \X ReceivedValues \X RportValues}

\* The Route headers of the request, their addresses being URI objects 2..:
\* none, one without an address, two (the first decides), one whose
\* address is not a SIP URI.
RouteValues ==
    {[uris |-> <<>>, hdrs |-> <<>>],
     [uris |-> <<>>, hdrs |-> <<RouteHeader(<<>>)>>],
     [uris |-> <<SipUri("proxy.example", 5080), SipUri("proxy2.example", NilPort)>>,
      hdrs |-> <<RouteHeader(<<2, 3>>)>>],
     [uris |-> <<SipUri("proxy.example", NilPort), SipUri("proxy2.example", 5080)>>,
      hdrs |-> <<RouteHeader(<<2>>), RouteHeader(<<3>>)>>],
     [uris |-> <<OtherUri("*")>>, hdrs |-> <<RouteHeader(<<2>>)>>]}

RecipientValues ==
    {SipUri("bob.example", NilPort), SipUri("bob.example", 5066),
     OtherUri("tel")}

InitAddr ==
    /\ \E recipient \in RecipientValues, route \in RouteValues, via \in ViaValues :
         LET f == [uris |-> <<recipient>> \o route.uris,
                   hdrs |-> via \o route.hdrs,
                   reqs |-> <<>>, nextID |-> 1, nextBranch |-> 1,
                   panic |-> FALSE]
             g == NewRequest(f, "", "INVITE", 1, "SIP/2.0",
                             [k \in 1..Len(f.hdrs) |-> k], "", NoFields)
         IN /\ uris = g.uris
            /\ hdrs = g.hdrs
            /\ reqs = g.reqs
            /\ nextID = g.nextID
            /\ nextBranch = g.nextBranch
    /\ origin = <<[op |-> "new", from |-> 0]>>
    /\ resp = [messID |-> "resp1", sipVersion |-> "SIP/2.0", headers |-> <<>>]
    /\ nmut = 0
    /\ last = [op |-> "init", ok |-> TRUE, src |-> 0, dst |-> 0, out |-> "",
               pre |-> [reqs |-> <<>>, resp |-> resp]]

\* The result of a call that changes nothing.
Answer(op, r) ==
    /\ last' = [op |-> op, ok |-> r.ok, src |-> 1, dst |-> 0, out |-> r.out,
                pre |-> last.pre]
    /\ UNCHANGED <<uris, hdrs, reqs, origin, resp, nextID, nextBranch, nmut>>

SourceAct == Answer("source", Source(Frame, reqs[1]))

DestinationAct == Answer("destination", Destination(Frame, reqs[1]))

\* The transport layer sets the source or the destination of the request.
SetSourceAct ==
    /\ reqs[1].src = ""
    /\ reqs' = [reqs EXCEPT ![1].src = "192.0.2.1:9"]
    /\ last' = [last EXCEPT !.op = "setsource", !.out = ""]
    /\ UNCHANGED <<uris, hdrs, origin, resp, nextID, nextBranch, nmut>>

SetDestinationAct ==
    /\ reqs[1].dest = ""
    /\ reqs' = [reqs EXCEPT ![1].dest = "192.0.2.2:9"]
    /\ last' = [last EXCEPT !.op = "setdestination", !.out = ""]
    /\ UNCHANGED <<uris, hdrs, origin, resp, nextID, nextBranch, nmut>>

NextAddr ==
    \/ SourceAct
    \/ DestinationAct
    \/ SetSourceAct
    \/ SetDestinationAct

SpecAddr == InitAddr /\ [][NextAddr]_vars

----------------------------------------------------------------------------
\* Reading the values of a message (a ReqView or RespView).

ViewHeaders(view, name) == SelectSeq(view.headers, LAMBDA h : h.name = name)

\* Whether the message has a top Via hop that is not nil.
HasTopHop(view) ==
    /\ ViewHeaders(view, "Via") # <<>>
    /\ ViewHeaders(view, "Via")[1].hops # <<>>
    /\ ViewHeaders(view, "Via")[1].hops[1] # NilHop

TopHop(view) == ViewHeaders(view, "Via")[1].hops[1]

\* Every hop of every Via header of a message, and of the messages vs.
HopsOf(view) ==
    UNION {{view.headers[k].hops[j] : j \in DOMAIN view.headers[k].hops} :
             k \in DOMAIN view.headers}
AllHops(vs) == UNION {HopsOf(vs[i]) : i \in DOMAIN vs}

RECURSIVE Flatten(_)
\* The addresses of the headers hs, in header order then address order.
Flatten(hs) ==
    IF hs = <<>> THEN <<>> ELSE Head(hs).Addresses \o Flatten(Tail(hs))

Reverse(sq) == [k \in 1..Len(sq) |-> sq[Len(sq) + 1 - k]]

\* The request the last call read, as it was before the call, and the
\* request it returned, as it is now.
Original == last.pre.reqs[last.src]
Derived == ReqView(Frame, last.dst)
Returned(op) == last.op = op /\ last.ok

\* Request j was derived from request i, or i from j.
Related(i, j) == origin[i].from = j \/ origin[j].from = i

----------------------------------------------------------------------------
\* The claims

\* C1: an ACK made from an INVITE without Route headers has as its Route
\* addresses, read in header order and then address order, the response's
\* Record-Route addresses in reverse order, on however many header lines
\* the response carries them.
AckRouteIsReversedRecordRoute ==
    (Returned("ack") /\ ViewHeaders(Original, "Route") = <<>>)
    => Flatten(ViewHeaders(Derived, "Route"))
         = Reverse(Flatten(ViewHeaders(last.pre.resp, "Record-Route")))

\* C2: a mutation made through one request leaves every request derived
\* from it, and every request it was derived from, as it was; a mutation
\* made through an ACK leaves the response as it was, and a mutation of the
\* response leaves every ACK as it was.
DerivedSharesNothing ==
    /\ last.op = "mutate" =>
         /\ \A j \in 1..Len(reqs) :
              (j # last.src /\ Related(j, last.src))
              => ReqView(Frame, j) = last.pre.reqs[j]
         /\ origin[last.src].op = "ack"
              => RespView(Frame, resp) = last.pre.resp
    /\ last.op = "mutateresp" =>
         \A j \in 1..Len(reqs) :
            origin[j].op = "ack" => ReqView(Frame, j) = last.pre.reqs[j]

\* C3: NewAckRequest and NewCancelRequest complete and return a request for
\* every input.
DerivationNeverAborts ==
    last.op \in {"ack", "cancel"} => last.ok

\* C4: the ACK of an INVITE whose top Via hop has a branch parameter has a
\* top Via hop with a branch that no hop had before the call, and with the
\* host, port, transport and every other parameter of the INVITE's top hop.
AckBranchRegenerated ==
    (Returned("ack") /\ HasTopHop(Original)
        /\ "branch" \in DOMAIN TopHop(Original).Params)
    => /\ HasTopHop(Derived)
       /\ DOMAIN TopHop(Derived).Params = DOMAIN TopHop(Original).Params
       /\ TopHop(Derived).Params["branch"] # TopHop(Original).Params["branch"]
       /\ \A hop \in AllHops(last.pre.reqs) :
            "branch" \in DOMAIN hop.Params
            => hop.Params["branch"] # TopHop(Derived).Params["branch"]
       /\ \A k \in DOMAIN TopHop(Original).Params \ {"branch"} :
            TopHop(Derived).Params[k] = TopHop(Original).Params[k]
       /\ TopHop(Derived).Host = TopHop(Original).Host
       /\ TopHop(Derived).Port = TopHop(Original).Port
       /\ TopHop(Derived).Transport = TopHop(Original).Transport

AckBranchRegeneratedWitness ==
    /\ Returned("ack")
    /\ HasTopHop(Original)
    /\ Len(ViewHeaders(Original, "Via")[1].hops) = 2
    /\ "rport" \in DOMAIN TopHop(Derived).Params

\* C5: the CANCEL of a request with a top Via hop has one Via header of one
\* hop, equal to the request's top Via hop in host, port, transport and all
\* parameters, the branch included.
CancelViaPreserved ==
    (Returned("cancel") /\ HasTopHop(Original))
    => /\ Len(ViewHeaders(Derived, "Via")) = 1
       /\ ViewHeaders(Derived, "Via")[1].hops = <<TopHop(Original)>>
       /\ TopHop(Derived).Params["branch"] = TopHop(Original).Params["branch"]

CancelViaPreservedWitness ==
    /\ Returned("cancel")
    /\ HasTopHop(Original)
    /\ Len(ViewHeaders(Original, "Via")[1].hops) = 2
    /\ "branch" \in DOMAIN TopHop(Derived).Params

\* C6: every request has a request_id field equal to its own message id.
RequestIDIsMessageID ==
    \A i \in 1..Len(reqs) :
       /\ "request_id" \in DOMAIN reqs[i].fields
       /\ reqs[i].fields["request_id"] = reqs[i].messID

\* A request made with fields that held another request_id, cloned under a
\* new message id.
RequestIDIsMessageIDWitness ==
    /\ Returned("clone")
    /\ "tag" \in DOMAIN Original.fields
    /\ Derived.fields["request_id"] # Original.fields["request_id"]

\* C7: CopyRequest and WithFields return a request with the message id of
\* their source, Clone one with another message id.
MessageIDLaw ==
    \A i \in 1..Len(reqs) :
       /\ origin[i].op \in {"copy", "withfields"}
            => reqs[i].messID = reqs[origin[i].from].messID
       /\ origin[i].op = "clone"
            => reqs[i].messID # reqs[origin[i].from].messID

\* A clone of a request whose message id the caller supplied.
MessageIDLawWitness ==
    /\ Returned("clone")
    /\ Original.messID = "m1"
    /\ Derived.messID # "m1"

\* C10: the ACK and the CANCEL of a request whose CSeq is (n, m) have the
\* CSeq (n, ACK) and (n, CANCEL), and the request's CSeq is (n, m) after
\* the call.
CSeqMethodSubstituted ==
    \A op \in {"ack", "cancel"} :
       (Returned(op) /\ ViewHeaders(Original, "CSeq") # <<>>)
       => /\ Len(ViewHeaders(Derived, "CSeq")) = Len(ViewHeaders(Original, "CSeq"))
          /\ ViewHeaders(Derived, "CSeq")[1].SeqNo
               = ViewHeaders(Original, "CSeq")[1].SeqNo
          /\ ViewHeaders(Derived, "CSeq")[1].MethodName
               = (IF op = "ack" THEN "ACK" ELSE "CANCEL")
          /\ ViewHeaders(ReqView(Frame, last.src), "CSeq")
               = ViewHeaders(Original, "CSeq")

CSeqMethodSubstitutedWitness ==
    /\ Returned("ack")
    /\ ViewHeaders(Original, "CSeq")[1] = CallerCSeq("INVITE")
    /\ ViewHeaders(Original, "CSeq")[1].MethodName = "INVITE"
    /\ ViewHeaders(Derived, "CSeq")[1].MethodName = "ACK"

\* The claimed reading of rport: an unsigned 16-bit decimal, else 0.
Uint16OrZero(cs) ==
    IF AllDigits(cs) /\ ~Exceeds(cs, <<"6", "5", "5", "3", "5">>)
    THEN Low16(cs, 0) ELSE 0

\* The parameter key is present and not empty.
HasValue(params, key) ==
    key \in DOMAIN params /\ params[key].Str # <<>>

\* C8: Source() returns the src override when set, "" without a Via hop,
\* and otherwise "host:port": the host is the received parameter when
\* present and non-empty, else the Via host; the port is the rport parameter
\* when present and non-empty, read as an unsigned 16-bit integer, 0 when it
\* is not one, else the Via hop's port when present, else the default port
\* of the transport.
SourceFollowsFallbackChain ==
    last.op = "source" =>
      /\ last.ok
      /\ last.out =
           IF reqs[1].src # "" THEN reqs[1].src
           ELSE IF ~HasTopHop(ReqView(Frame, 1)) THEN ""
           ELSE LET hop == TopHop(ReqView(Frame, 1))
                IN HostPort(
                     IF HasValue(hop.Params, "received")
                     THEN Join(hop.Params["received"].Str) ELSE hop.Host,
                     IF HasValue(hop.Params, "rport")
                     THEN Uint16OrZero(hop.Params["rport"].Str)
                     ELSE IF hop.Port # NilPort THEN hop.Port
                     ELSE DefaultPort(hop.Transport))

\* "host:port" of a URI, a missing port being the transport's default.
UriHostPort(uri) ==
    HostPort(uri.FHost,
             IF uri.FPort # NilPort THEN uri.FPort
             ELSE DefaultPort(Transport(Frame, reqs[1])))

\* C9: Destination() without a dest override never fails; with Route
\* headers it returns the host and port of the first address of the first
\* Route header, without any the host and port of a SIP-URI recipient and
\* "" for another recipient; a missing port is the default port of the
\* transport.
DestinationFollowsRoute ==
    (last.op = "destination" /\ reqs[1].dest = "") =>
      /\ last.ok
      /\ LET routes == ViewHeaders(ReqView(Frame, 1), "Route")
             recipient == uris[reqs[1].recipient]
         IN IF routes # <<>>
            THEN routes[1].Addresses # <<>>
                   => last.out = UriHostPort(routes[1].Addresses[1])
            ELSE last.out = IF recipient.kind = "sip"
                            THEN UriHostPort(recipient) ELSE ""

====
